---- MODULE Spec2Model ----
(***************************************************************************)
(* Model of the submission workflow of the grade-query application:        *)
(* the student submit handler (app/routers/student.py), the status query  *)
(* and the score writers (app/crud.py) and the exam switches              *)
(* (app/routers/admin.py), over the tables ExamType, Score, SubmissionLog. *)
(***************************************************************************)
EXTENDS Integers, Sequences, FiniteSets, TLC

\* ---- bounds of the model ----
\* the clock runs from 0 to MaxTime: before, at and after a deadline of 1
MaxTime == 2
\* the log table of the status query holds up to MaxRows rows
MaxRows == 3
\* a graded catalog holds up to MaxOptional optional exams
MaxOptional == 3

\* ---- program constants ----
MaxAttempts == 3
ConfidenceThreshold == 75
DefaultConfidence == 0
\* the slots of the Top 20 rule, and the least divisor of the average
TopSlots == 20
MinDivisor == 20

\* one student and one exam id (which the catalog may or may not hold):
\* one (student, exam) pair; two request slots, of which sequential runs
\* use the first
Users == {1}
ExamIds == {1}
Reqs == {1, 2}
SeqReqs == {1}
Pairs == Users \X ExamIds

\* score values an administrator or a student can enter
ScoreVals == {60, 90}
\* confidence values the classifier reports (around the threshold)
Confidences == {75, 76}

NoDeadline == -1
Deadlines == {NoDeadline, 1}
NoUser == 0

\* SubmissionStatus
PENDING == "PENDING"
APPROVED == "APPROVED"
REJECTED == "REJECTED"

\* JSON responses of student_submit_action
R_NONE == "none"
R_CAPTCHA == "CAPTCHA Verification Failed"
R_MAX == "Max attempts reached"
R_ALREADY == "Already approved"
R_NOTFOUND == "Exam not found"
R_CLOSED == "Submission is closed"
R_NOAI == "AI not configured"
R_BADJSON == "AI response was not valid JSON"
\* f"Server Error: {str(e)}" for the exceptions the handler catches
R_ERR_AUTH == "Server Error: 403: Unauthorized"
R_ERR_NET == "Server Error: challenge verifier call failed"
R_ERR_AI == "Server Error: classifier call failed"
R_ERR_ATTR == "Server Error: object has no attribute 'get'"
R_ERR_DB == "Server Error: database operation failed"
R_APPROVED == "redirect /student"
R_REJECTED == "Verification Failed"

VARIABLES exams, scores, logs, now, TURNSTILE_SECRET_KEY, client, req, report

vars == <<exams, scores, logs, now, TURNSTILE_SECRET_KEY, client, req, report>>

\* ---- rows ----
ExamType(is_mandatory, is_open, deadline) ==
  [is_mandatory |-> is_mandatory, is_open_for_submission |-> is_open,
   submission_deadline |-> deadline]

Score(u, e, v) == [user_id |-> u, exam_type_id |-> e, score |-> v]

SubmissionLog(u, e, n, st, t, ai) ==
  [user_id |-> u, exam_type_id |-> e, attempt_count |-> n, status |-> st,
   last_attempt_time |-> t, ai_response_json |-> ai]

\* ---- texts the classifier can answer ----
\* kind "invalid": not JSON; "array": JSON but not an object;
\* "object": a JSON object, with or without the key "confidence".
Text(fenced, kind, has, c) ==
  [fenced |-> fenced, kind |-> kind, has_confidence |-> has, confidence |-> c]

NoText == Text(FALSE, "none", FALSE, 0)

\* generate_content raises (network error, API error)
Raises == Text(FALSE, "raise", FALSE, 0)

\* generate_content does not return: the classifier never answers, and
\* neither genai.Client(api_key=...) nor the call is given a timeout
Hangs == Text(FALSE, "hang", FALSE, 0)

Replies == {Text(FALSE, "object", TRUE, c) : c \in Confidences}
             \cup {Text(TRUE, "object", TRUE, ConfidenceThreshold + 1),
                   Text(FALSE, "object", FALSE, 0),
                   Text(FALSE, "invalid", FALSE, 0),
                   Text(FALSE, "array", FALSE, 0),
                   Raises}

\* text_response.replace("```json", "").replace("```", "").strip()
CleanResponse(text) == [text EXCEPT !.fenced = FALSE]

\* json.loads raises JSONDecodeError on a fenced or non-JSON text
JsonDecodeError(text) == text.fenced \/ text.kind = "invalid"

\* json.dumps(json.loads(text)): the canonical text of the parsed value
JsonDumps(text) == [text EXCEPT !.fenced = FALSE]

\* ai_data.get("confidence", 0)
GetConfidence(ai_data) ==
  IF ai_data.has_confidence THEN ai_data.confidence ELSE DefaultConfidence

\* ---- sequences ----
PairLogs(ls, u, e) ==
  LET Test(l) == l.user_id = u /\ l.exam_type_id = e IN SelectSeq(ls, Test)

PairScores(ss, u, e) ==
  LET Test(s) == s.user_id = u /\ s.exam_type_id = e IN SelectSeq(ss, Test)

\* ---- app/crud.py ----

\* the comparison with the deadline turned around
DeadlinePassed_inverted(exam, t) ==
  exam.submission_deadline # NoDeadline /\ t < exam.submission_deadline

\* exam.submission_deadline and datetime.utcnow() > exam.submission_deadline
DeadlinePassed(exam, t) ==
  exam.submission_deadline # NoDeadline /\ t > exam.submission_deadline

\* the manual flag alone, the deadline not looked at
is_exam_effectively_open_flag_only(exam, t) == exam.is_open_for_submission

is_exam_effectively_open(exam, t) ==
  IF ~exam.is_open_for_submission THEN FALSE
  ELSE IF DeadlinePassed(exam, t) THEN FALSE
  ELSE TRUE

\* the rows ordered by last_attempt_time ascending: the oldest row first
LatestStatuses_oldest(rows) ==
  {rows[i].status : i \in {j \in 1..Len(rows) :
       \A k \in 1..Len(rows) :
          rows[k].last_attempt_time >= rows[j].last_attempt_time}}

\* the statuses submissions[0] can have under
\* order_by(last_attempt_time.desc()): rows of equal time come in any order
LatestStatuses(rows) ==
  {rows[i].status : i \in {j \in 1..Len(rows) :
       \A k \in 1..Len(rows) :
          rows[k].last_attempt_time <= rows[j].last_attempt_time}}

\* the status of the latest row, whether or not an older row is APPROVED
get_student_submission_status_latest(ls, u, e) ==
  LET submissions == PairLogs(ls, u, e)
      count == Len(submissions)
  IN  IF count > 0
      THEN {[count |-> count, status |-> st] : st \in LatestStatuses(submissions)}
      ELSE {[count |-> count, status |-> PENDING]}

\* the (count, status) results the query can return
get_student_submission_status(ls, u, e) ==
  LET submissions == PairLogs(ls, u, e)
      count == Len(submissions)
      is_approved == \E i \in 1..count : submissions[i].status = APPROVED
  IN  IF count > 0 /\ ~is_approved
      THEN {[count |-> count, status |-> st] : st \in LatestStatuses(submissions)}
      ELSE {[count |-> count,
             status |-> IF is_approved THEN APPROVED ELSE PENDING]}

\* ---- the database session of one request ----
Pending(table, row) == [table |-> table, row |-> row]

SessionAdd(pending, table, row) == Append(pending, Pending(table, row))

RowsOf(pending, table) ==
  LET Test(p) == p.table = table
      sel == SelectSeq(pending, Test)
  IN  [i \in 1..Len(sel) |-> sel[i].row]

\* a commit that writes the log rows and drops the Score rows
SessionCommit_logs_only(ss, ls, pending, db_ok) ==
  IF db_ok
  THEN [scores |-> ss, logs |-> ls \o RowsOf(pending, "SubmissionLog")]
  ELSE [scores |-> ss, logs |-> ls]

\* a commit that fails after the Score rows are flushed
SessionCommit_partial(ss, ls, pending, db_ok) ==
  IF db_ok
  THEN [scores |-> ss \o RowsOf(pending, "Score"),
        logs |-> ls \o RowsOf(pending, "SubmissionLog")]
  ELSE [scores |-> ss \o RowsOf(pending, "Score"), logs |-> ls]

\* session.commit(): every pending row is written, or (on a persistence
\* failure, db_ok = FALSE) none is: the session is closed without a commit
SessionCommit(ss, ls, pending, db_ok) ==
  IF db_ok
  THEN [scores |-> ss \o RowsOf(pending, "Score"),
        logs |-> ls \o RowsOf(pending, "SubmissionLog")]
  ELSE [scores |-> ss, logs |-> ls]

\* ---- app/routers/student.py ----

\* a verifier whose verdict is never looked at
verify_turnstile_bypass(secret, token) == TRUE

\* verify_turnstile: bypass when the secret is not configured, else the
\* verifier's verdict on the token
verify_turnstile(secret, token) ==
  IF ~secret THEN TRUE ELSE token = "good"

\* the threshold taken as inclusive
NewStatus_ge(confidence) ==
  IF confidence >= ConfidenceThreshold THEN APPROVED ELSE REJECTED

\* if confidence > 75: new_status = APPROVED
NewStatus(confidence) ==
  IF confidence > ConfidenceThreshold THEN APPROVED ELSE REJECTED

\* the log row numbered with the count read, not the count plus one
SubmissionRows_same_count(u, e, score_claim, count, ai_data, t) ==
  LET new_status == NewStatus(GetConfidence(ai_data))
      p1 == IF new_status = APPROVED
            THEN SessionAdd(<<>>, "Score", Score(u, e, score_claim))
            ELSE <<>>
  IN  SessionAdd(p1, "SubmissionLog",
        SubmissionLog(u, e, count, new_status, t, JsonDumps(ai_data)))

\* the approved score recorded as 0 instead of the claimed value
SubmissionRows_zero_score(u, e, score_claim, count, ai_data, t) ==
  LET new_status == NewStatus(GetConfidence(ai_data))
      p1 == IF new_status = APPROVED
            THEN SessionAdd(<<>>, "Score", Score(u, e, 0))
            ELSE <<>>
  IN  SessionAdd(p1, "SubmissionLog",
        SubmissionLog(u, e, count + 1, new_status, t, JsonDumps(ai_data)))

\* lines 254-273: the rows the request adds to its session
SubmissionRows(u, e, score_claim, count, ai_data, t) ==
  LET confidence == GetConfidence(ai_data)
      new_status == NewStatus(confidence)
      p1 == IF new_status = APPROVED
            THEN SessionAdd(<<>>, "Score", Score(u, e, score_claim))
            ELSE <<>>
  IN  SessionAdd(p1, "SubmissionLog",
        SubmissionLog(u, e, count + 1, new_status, t, JsonDumps(ai_data)))

\* an unparseable answer recorded as a rejected attempt
Judge_logs_failure(q, response, t) ==
  LET json_str == CleanResponse(response)
  IN  IF response.kind = "raise"
      THEN [result |-> R_ERR_AI, pending |-> <<>>]
      ELSE IF JsonDecodeError(json_str) \/ json_str.kind # "object"
      THEN [result |-> R_BADJSON,
            pending |-> SessionAdd(<<>>, "SubmissionLog",
                          SubmissionLog(q.user, q.exam_id, q.count + 1,
                                        REJECTED, t, json_str))]
      ELSE [result |-> IF NewStatus(GetConfidence(json_str)) = APPROVED
                       THEN R_APPROVED ELSE R_REJECTED,
            pending |-> SubmissionRows(q.user, q.exam_id, q.score_claim,
                                       q.count, json_str, t)]

\* lines 230-292: what the request does with the classifier's answer, up to
\* the commit: its response and the rows it has added to the session
Judge(q, response, t) ==
  LET json_str == CleanResponse(response)
  IN  IF response.kind = "raise"
      THEN [result |-> R_ERR_AI, pending |-> <<>>]
      ELSE IF JsonDecodeError(json_str)
      THEN [result |-> R_BADJSON, pending |-> <<>>]
      ELSE IF json_str.kind # "object"
      THEN [result |-> R_ERR_ATTR, pending |-> <<>>]
      ELSE [result |-> IF NewStatus(GetConfidence(json_str)) = APPROVED
                       THEN R_APPROVED ELSE R_REJECTED,
            pending |-> SubmissionRows(q.user, q.exam_id, q.score_claim,
                                       q.count, json_str, t)]

\* ---- requests ----
Idle ==
  [pc |-> "idle", user |-> NoUser, exam_id |-> 1, score_claim |-> 0,
   cf_turnstile_response |-> "good", count |-> 0, status |-> PENDING,
   contacted |-> FALSE, response |-> NoText, result |-> R_NONE]

\* what the last read-only query returned; none was made yet
NoReport == [kind |-> "none"]

\* the handler returns: its locals are gone; the response is left, with the
\* classifier's answer when one was asked for
Finish(q, res) ==
  [Idle EXCEPT !.pc = "done", !.user = q.user, !.exam_id = q.exam_id,
               !.contacted = q.contacted, !.response = q.response,
               !.result = res]

Init ==
  /\ exams = << >>
  /\ scores = << >>
  /\ logs = << >>
  /\ now = 0
  /\ TURNSTILE_SECRET_KEY \in BOOLEAN
  /\ client \in BOOLEAN
  /\ req = [r \in Reqs |-> Idle]
  /\ report = NoReport

\* ---- administrator operations ----

\* create_exam_manual: ExamType(name=exam_name) unless the name exists
create_exam_manual(e) ==
  /\ e \notin DOMAIN exams
  /\ exams' = exams @@ (e :> ExamType(FALSE, FALSE, NoDeadline))
  /\ UNCHANGED <<scores, logs, now, TURNSTILE_SECRET_KEY, client, req, report>>

toggle_exam_submission(e, is_open) ==
  /\ e \in DOMAIN exams
  /\ exams' = [exams EXCEPT ![e].is_open_for_submission = is_open]
  /\ UNCHANGED <<scores, logs, now, TURNSTILE_SECRET_KEY, client, req, report>>

update_exam_deadline(e, deadline) ==
  /\ e \in DOMAIN exams
  /\ exams' = [exams EXCEPT ![e].submission_deadline = deadline]
  /\ UNCHANGED <<scores, logs, now, TURNSTILE_SECRET_KEY, client, req, report>>

update_exam_status_api(e, is_open, deadline) ==
  /\ e \in DOMAIN exams
  /\ exams' = [exams EXCEPT ![e].is_open_for_submission = is_open,
                            ![e].submission_deadline = deadline]
  /\ UNCHANGED <<scores, logs, now, TURNSTILE_SECRET_KEY, client, req, report>>

\* the index of the row .first() returns, 0 when there is none
FirstScore(ss, u, e) ==
  IF \E i \in 1..Len(ss) : ss[i].user_id = u /\ ss[i].exam_type_id = e
  THEN CHOOSE i \in 1..Len(ss) :
         /\ ss[i].user_id = u /\ ss[i].exam_type_id = e
         /\ \A j \in 1..(i - 1) : ~(ss[j].user_id = u /\ ss[j].exam_type_id = e)
  ELSE 0

\* "Update/Insert Score" of process_excel_upload and bulk_update_scores
UpsertScore(ss, u, e, v) ==
  LET existing == FirstScore(ss, u, e)
  IN  IF existing # 0 THEN [ss EXCEPT ![existing].score = v]
      ELSE Append(ss, Score(u, e, v))

\* the cells of a sheet or form in iteration order: rows, then columns
FirstCell(cells) ==
  CHOOSE c \in cells : \A d \in cells :
     c[1] < d[1] \/ (c[1] = d[1] /\ c[2] <= d[2])

RECURSIVE UpsertAll(_, _, _)
UpsertAll(ss, sheet, cells) ==
  IF cells = {} THEN ss
  ELSE LET c == FirstCell(cells)
       IN  UpsertAll(UpsertScore(ss, c[1], c[2], sheet[c]), sheet, cells \ {c})

\* the sheets and forms an administrator sends: a value for some pairs
Sheets == UNION {[cells -> ScoreVals] : cells \in SUBSET Pairs}

\* process_excel_upload: unknown exam columns are created (optional, closed,
\* no deadline), then every numeric cell is upserted
process_excel_upload(sheet) ==
  LET exam_columns == {c[2] : c \in DOMAIN sheet}
      created == exam_columns \ DOMAIN exams
  IN  /\ DOMAIN sheet # {}
      /\ exams' = exams @@ [e \in created |-> ExamType(FALSE, FALSE, NoDeadline)]
      /\ scores' = UpsertAll(scores, sheet, DOMAIN sheet)
      /\ UNCHANGED <<logs, now, TURNSTILE_SECRET_KEY, client, req, report>>

\* bulk_update_scores: keys score_{user_id}_{exam_id} of the score matrix
\* form, which lists the exams of the catalog
bulk_update_scores(form_data) ==
  /\ DOMAIN form_data # {}
  /\ \A c \in DOMAIN form_data : c[2] \in DOMAIN exams
  /\ scores' = UpsertAll(scores, form_data, DOMAIN form_data)
  /\ UNCHANGED <<exams, logs, now, TURNSTILE_SECRET_KEY, client, req, report>>

\* datetime.utcnow() advances
Tick ==
  /\ now < MaxTime
  /\ now' = now + 1
  /\ UNCHANGED <<exams, scores, logs, TURNSTILE_SECRET_KEY, client, req, report>>

\* ---- student_submit_action, one action per stretch between two waits ----

\* lines 153-168: the request arrives, the session user is read and the
\* challenge verifier is called
SubmitStart(r, u, e, score_claim, token) ==
  /\ req[r].pc \in {"idle", "done"}
  /\ LET q == [Idle EXCEPT !.user = u, !.exam_id = e,
                           !.score_claim = score_claim,
                           !.cf_turnstile_response = token]
     IN  req' = [req EXCEPT ![r] =
                   IF u = NoUser THEN Finish(q, R_ERR_AUTH)
                   ELSE [q EXCEPT !.pc = "turnstile"]]
  /\ UNCHANGED <<exams, scores, logs, now, TURNSTILE_SECRET_KEY, client, report>>

\* the attempt limit off by one
CheckSubmission_gt(q, cs, catalog, t) ==
  IF cs.count > MaxAttempts THEN Finish(q, R_MAX)
  ELSE IF cs.status = APPROVED THEN Finish(q, R_ALREADY)
  ELSE IF q.exam_id \notin DOMAIN catalog THEN Finish(q, R_NOTFOUND)
  ELSE IF ~is_exam_effectively_open(catalog[q.exam_id], t)
       THEN Finish(q, R_CLOSED)
  ELSE [q EXCEPT !.pc = "image", !.count = cs.count, !.status = cs.status]

\* the exam looked up and its open status checked before the attempts
CheckSubmission_open_first(q, cs, catalog, t) ==
  IF q.exam_id \notin DOMAIN catalog THEN Finish(q, R_NOTFOUND)
  ELSE IF ~is_exam_effectively_open(catalog[q.exam_id], t)
       THEN Finish(q, R_CLOSED)
  ELSE IF cs.count >= MaxAttempts THEN Finish(q, R_MAX)
  ELSE IF cs.status = APPROVED THEN Finish(q, R_ALREADY)
  ELSE [q EXCEPT !.pc = "image", !.count = cs.count, !.status = cs.status]

\* the check of an earlier approval left out
CheckSubmission_no_approved(q, cs, catalog, t) ==
  IF cs.count >= MaxAttempts THEN Finish(q, R_MAX)
  ELSE IF q.exam_id \notin DOMAIN catalog THEN Finish(q, R_NOTFOUND)
  ELSE IF ~is_exam_effectively_open(catalog[q.exam_id], t)
       THEN Finish(q, R_CLOSED)
  ELSE [q EXCEPT !.pc = "image", !.count = cs.count, !.status = cs.status]

\* the check of the attempt limit left out
CheckSubmission_no_limit(q, cs, catalog, t) ==
  IF cs.status = APPROVED THEN Finish(q, R_ALREADY)
  ELSE IF q.exam_id \notin DOMAIN catalog THEN Finish(q, R_NOTFOUND)
  ELSE IF ~is_exam_effectively_open(catalog[q.exam_id], t)
       THEN Finish(q, R_CLOSED)
  ELSE [q EXCEPT !.pc = "image", !.count = cs.count, !.status = cs.status]

\* lines 171-186 in the order of the code: attempts, approval, exam, open
CheckSubmission(q, cs, catalog, t) ==
  IF cs.count >= MaxAttempts THEN Finish(q, R_MAX)
  ELSE IF cs.status = APPROVED THEN Finish(q, R_ALREADY)
  ELSE IF q.exam_id \notin DOMAIN catalog THEN Finish(q, R_NOTFOUND)
  ELSE IF ~is_exam_effectively_open(catalog[q.exam_id], t)
       THEN Finish(q, R_CLOSED)
  ELSE [q EXCEPT !.pc = "image", !.count = cs.count, !.status = cs.status]

\* lines 166-186: the challenge, then the checks on the values read from
\* the tables (cs: a result of the status query)
Precheck(q, secret, cs, catalog, t) ==
  IF ~verify_turnstile(secret, q.cf_turnstile_response)
  THEN Finish(q, R_CAPTCHA)
  ELSE CheckSubmission(q, cs, catalog, t)

\* lines 168-189: the verifier answers (or the call raises), then the checks
\* run up to the wait for image.read()
SubmitCheck(r, verifier_ok) ==
  /\ req[r].pc = "turnstile"
  /\ LET q == req[r] IN
       IF TURNSTILE_SECRET_KEY /\ ~verifier_ok
       THEN req' = [req EXCEPT ![r] = Finish(q, R_ERR_NET)]
       ELSE \E cs \in get_student_submission_status(logs, q.user, q.exam_id) :
              req' = [req EXCEPT ![r] =
                        Precheck(q, TURNSTILE_SECRET_KEY, cs, exams, now)]
  /\ UNCHANGED <<exams, scores, logs, now, TURNSTILE_SECRET_KEY, client, report>>

\* lines 189-244: the image is read; without a client the request ends,
\* else the classifier is called; response is its answer, on its way
SubmitCallClassifier(r, response) ==
  /\ req[r].pc = "image"
  /\ req' = [req EXCEPT ![r] =
               IF ~client THEN Finish(@, R_NOAI)
               ELSE [@ EXCEPT !.pc = "ai", !.contacted = TRUE,
                              !.response = response]]
  /\ UNCHANGED <<exams, scores, logs, now, TURNSTILE_SECRET_KEY, client, report>>

\* lines 245-297: the classifier call returns; the text is parsed, the rows
\* are added to the session and committed (db_ok: the commit succeeds;
\* refresh_ok: so does the session.refresh(log) after it)
SubmitProcess(r, db_ok, refresh_ok) ==
  /\ req[r].pc = "ai"
  /\ req[r].response # Hangs
  /\ LET q == req[r]
         j == Judge(q, q.response, now)
         db == SessionCommit(scores, logs, j.pending, db_ok)
     IN  /\ scores' = db.scores
         /\ logs' = db.logs
         /\ req' = [req EXCEPT ![r] =
                      Finish(q, IF j.pending # <<>> /\ ~(db_ok /\ refresh_ok)
                                THEN R_ERR_DB
                                ELSE j.result)]
  /\ UNCHANGED <<exams, now, TURNSTILE_SECRET_KEY, client, report>>

\* ---- calculate_student_grades (app/crud.py) ----

\* score_map.get(exam.id) is None: the student has no Score row for the exam
NoScore == -1

RECURSIVE SumSeq(_)
SumSeq(s) == IF s = << >> THEN 0 ELSE Head(s) + SumSeq(Tail(s))

\* exam a comes before exam b under
\* order_by(ExamType.is_mandatory.desc(), ExamType.name.asc()); an exam's
\* number stands for its name
ExamBefore(catalog, a, b) ==
  \/ catalog[a].is_mandatory /\ ~catalog[b].is_mandatory
  \/ catalog[a].is_mandatory = catalog[b].is_mandatory /\ a < b

\* the exam ids in that order
RECURSIVE OrderExams(_, _)
OrderExams(catalog, ids) ==
  IF ids = {} THEN << >>
  ELSE LET a == CHOOSE x \in ids :
                  \A b \in ids \ {x} : ExamBefore(catalog, x, b)
       IN  <<a>> \o OrderExams(catalog, ids \ {a})

get_all_exams(catalog) == OrderExams(catalog, DOMAIN catalog)

\* a list whose items are computed once, when the list is built
List(f) == SubSeq(f, 1, Len(f))

\* select(Score).where(Score.user_id == user_id)
UserScores(ss, u) == LET Test(s) == s.user_id = u IN SelectSeq(ss, Test)

\* {s.exam_type_id: s.score for s in scores}.get(e): of several rows of one
\* exam the last one stays in the dict
ScoreMapGet(user_scores, e) ==
  LET rows == {i \in 1..Len(user_scores) : user_scores[i].exam_type_id = e}
  IN  IF rows = {} THEN NoScore
      ELSE user_scores[CHOOSE i \in rows : \A j \in rows : j <= i].score

\* eligibility that does not look at the recorded score
CanSubmit_ignores_score(include_submission_status, exam, score_val, statuses, t) ==
  /\ include_submission_status
  /\ is_exam_effectively_open(exam, t)
  /\ \E cs \in statuses : cs.count < MaxAttempts /\ cs.status # APPROVED

\* lines 227-232; statuses: the results of the status query for the pair
CanSubmit(include_submission_status, exam, score_val, statuses, t) ==
  /\ include_submission_status
  /\ is_exam_effectively_open(exam, t)
  /\ score_val = NoScore
  /\ \E cs \in statuses : cs.count < MaxAttempts /\ cs.status # APPROVED

\* calc_val = score_val if score_val is not None else 0.0
MandatoryValue(score_val) == IF score_val # NoScore THEN score_val ELSE 0

\* mandatory exams taken only when they have a score
MandatoryItems_scored(all_exams, catalog, val) ==
  LET Test(i) == catalog[all_exams[i]].is_mandatory /\ val[i] # NoScore
  IN  SelectSeq([i \in 1..Len(all_exams) |-> i], Test)

\* mandatory_items, as positions in all_exams: every mandatory exam
MandatoryItems(all_exams, catalog, val) ==
  LET Test(i) == catalog[all_exams[i]].is_mandatory
  IN  SelectSeq([i \in 1..Len(all_exams) |-> i], Test)

\* optional exams taken only when their score is truthy (not 0.0)
OptionalItems_positive(all_exams, catalog, val) ==
  LET Test(i) == ~catalog[all_exams[i]].is_mandatory /\ val[i] > 0
  IN  SelectSeq([i \in 1..Len(all_exams) |-> i], Test)

\* optional_items, as positions in all_exams: the optional exams that have a
\* score
OptionalItems(all_exams, catalog, val) ==
  LET Test(i) == ~catalog[all_exams[i]].is_mandatory /\ val[i] # NoScore
  IN  SelectSeq([i \in 1..Len(all_exams) |-> i], Test)

\* the list left in the order of the catalog
SortByScoreDesc_unsorted(items, val) == items

\* a descending sort that turns the order of items of equal score around
\* (the ascending sort, reversed)
SortByScoreDesc_unstable(items, val) ==
  LET Rank(p) == Cardinality({q \in 1..Len(items) :
                     \/ val[items[q]] > val[items[p]]
                     \/ val[items[q]] = val[items[p]] /\ q > p}) + 1
  IN  [k \in 1..Len(items) |->
         items[CHOOSE p \in 1..Len(items) : Rank(p) = k]]

\* optional_items.sort(key=score, reverse=True): a stable sort, items of equal
\* score keep their order
SortByScoreDesc(items, val) ==
  LET Rank(p) == Cardinality({q \in 1..Len(items) :
                     \/ val[items[q]] > val[items[p]]
                     \/ val[items[q]] = val[items[p]] /\ q < p}) + 1
  IN  [k \in 1..Len(items) |->
         items[CHOOSE p \in 1..Len(items) : Rank(p) = k]]

\* every optional exam with a score taken, whatever the number of slots
TopOptionals_all(optional_items, val, slots_needed) ==
  SortByScoreDesc(optional_items, val)

\* optional_items[:slots_needed] after the sort, nothing when no slot is left
TopOptionals(optional_items, val, slots_needed) ==
  IF slots_needed > 0
  THEN LET sorted == SortByScoreDesc(optional_items, val)
       IN  SubSeq(sorted, 1, IF slots_needed < Len(sorted)
                             THEN slots_needed ELSE Len(sorted))
  ELSE << >>

\* the divisor held at 20
Divisor_fixed(effective_count) == MinDivisor

\* divisor = max(20, effective_count)
Divisor(effective_count) ==
  IF effective_count > MinDivisor THEN effective_count ELSE MinDivisor

\* round(total / divisor, 2) in hundredths, for whole-number scores: the
\* quotient is rounded to the nearest hundredth, and a quotient halfway
\* between two hundredths (an exact binary fraction for the divisors that
\* occur) goes to the even one
Round2(total, divisor) ==
  LET n == 100 * total
      q == n \div divisor
      r == n % divisor
  IN  IF 2 * r < divisor THEN q
      ELSE IF 2 * r > divisor THEN q + 1
      ELSE IF q % 2 = 0 THEN q ELSE q + 1

\* lines 190-307: the report of one student; average is in hundredths
calculate_student_grades(user_id, catalog, ss, ls, t, include_submission_status) ==
  IF user_id \notin Users THEN [kind |-> "empty"]
  ELSE
  LET all_exams == get_all_exams(catalog)
      scores_of_user == UserScores(ss, user_id)
      val == List([i \in 1..Len(all_exams) |->
                     ScoreMapGet(scores_of_user, all_exams[i])])
      mandatory_items == MandatoryItems(all_exams, catalog, val)
      optional_items == OptionalItems(all_exams, catalog, val)
      slots_needed == TopSlots - Len(mandatory_items)
      top_optionals == TopOptionals(optional_items, val, slots_needed)
      included == {mandatory_items[k] : k \in 1..Len(mandatory_items)}
                    \cup {top_optionals[k] : k \in 1..Len(top_optionals)}
      selected_scores ==
        [k \in 1..Len(mandatory_items) |-> MandatoryValue(val[mandatory_items[k]])]
          \o [k \in 1..Len(top_optionals) |-> val[top_optionals[k]]]
      effective_count == Len(selected_scores)
      total_score == SumSeq(selected_scores)
      divisor == Divisor(effective_count)
      average == IF divisor = 0 THEN 0 ELSE Round2(total_score, divisor)
      valid_exam_count ==
        Cardinality({i \in 1..Len(scores_of_user) : scores_of_user[i].score > 0})
      formatted_rows ==
        [i \in 1..Len(all_exams) |->
           LET exam == catalog[all_exams[i]]
           IN  [exam_id |-> all_exams[i],
                score |-> val[i],
                is_mandatory |-> exam.is_mandatory,
                included |-> i \in included,
                can_submit |->
                  CanSubmit(include_submission_status, exam, val[i],
                    get_student_submission_status(ls, user_id, all_exams[i]), t),
                submission_deadline |-> exam.submission_deadline]]
  IN  [kind |-> "grades",
       user_id |-> user_id,
       include_submission_status |-> include_submission_status,
       average |-> average,
       exam_count |-> Len(selected_scores),
       valid_exam_count |-> valid_exam_count,
       details |-> formatted_rows]

\* ---- specifications ----
Catalog ==
  \/ \E e \in ExamIds : create_exam_manual(e)
  \/ \E e \in ExamIds, is_open \in BOOLEAN : toggle_exam_submission(e, is_open)

Admin ==
  \/ Catalog
  \/ \E e \in ExamIds, d \in Deadlines : update_exam_deadline(e, d)
  \/ \E e \in ExamIds, is_open \in BOOLEAN, d \in Deadlines :
       update_exam_status_api(e, is_open, d)
  \/ \E sheet \in Sheets : process_excel_upload(sheet)
  \/ \E form_data \in Sheets : bulk_update_scores(form_data)

Submit(rs) ==
  \/ \E r \in rs, u \in Users \cup {NoUser}, e \in ExamIds,
        score_claim \in ScoreVals, token \in {"good", "bad"} :
       SubmitStart(r, u, e, score_claim, token)
  \/ \E r \in rs, verifier_ok \in BOOLEAN : SubmitCheck(r, verifier_ok)
  \/ \E r \in rs, response \in Replies : SubmitCallClassifier(r, response)
  \/ \E r \in rs, db_ok \in BOOLEAN, refresh_ok \in BOOLEAN :
       SubmitProcess(r, db_ok, refresh_ok)

\* submit requests processed one after the other, between and during the
\* administrator's operations
Next == Admin \/ Tick \/ Submit(SeqReqs)

Spec == Init /\ [][Next]_vars

\* submit requests of two clients interleaved at their waits
NextConc == Catalog \/ Submit(Reqs)

SpecConc == Init /\ [][NextConc]_vars

TypeOK ==
  /\ now \in 0..MaxTime
  /\ DOMAIN exams \subseteq ExamIds
  /\ \A r \in Reqs : req[r].pc \in {"idle", "turnstile", "image", "ai", "done"}

\* ---- the status query and the open predicate on tables of any content ----

\* the log table holds rows of two students, in any order of their times
\* (rows come from submit requests and from import_db_from_json)
LogUsers == {1, 2}
LogTimes == {0, 1}
LogRows ==
  {SubmissionLog(u, 1, 1, st, t, NoText) :
     u \in LogUsers, st \in {PENDING, APPROVED, REJECTED}, t \in LogTimes}

LogLists == UNION {[1..n -> LogRows] : n \in 0..MaxRows}

InitStatus ==
  /\ scores = << >>
  /\ TURNSTILE_SECRET_KEY = FALSE
  /\ client = FALSE
  /\ req = [r \in Reqs |-> Idle]
  /\ report = NoReport
  /\ \/ /\ logs \in LogLists
        /\ exams = << >>
        /\ now = 0
     \/ /\ logs = << >>
        /\ exams \in {1 :> ExamType(FALSE, is_open, deadline) :
                        is_open \in BOOLEAN, deadline \in Deadlines}
        /\ now \in 0..MaxTime

\* count, status = get_student_submission_status(session, user_id, exam_id)
QueryStatus(u, e) ==
  /\ \E cs \in get_student_submission_status(logs, u, e) :
       report' = [kind |-> "status", user_id |-> u, exam_id |-> e,
                  attempt_count |-> cs.count, current_status |-> cs.status]
  /\ UNCHANGED <<exams, scores, logs, now, TURNSTILE_SECRET_KEY, client, req>>

\* is_exam_effectively_open(exam) at the time now
QueryOpen(e) ==
  /\ e \in DOMAIN exams
  /\ report' = [kind |-> "open", exam_id |-> e,
                is_effectively_open |-> is_exam_effectively_open(exams[e], now)]
  /\ UNCHANGED <<exams, scores, logs, now, TURNSTILE_SECRET_KEY, client, req>>

NextStatus ==
  \/ \E u \in LogUsers, e \in ExamIds : QueryStatus(u, e)
  \/ \E e \in ExamIds : QueryOpen(e)

SpecStatus == InitStatus /\ [][NextStatus]_vars

\* ---- the grade report on tables of any content ----

\* the numbers of mandatory exams of the catalogs: none, few, just below,
\* at and above the 20 slots
MandatoryCounts == {0, 2, 19, 20, 21, 25}
MandatoryVals == {50, 90}
OptionalVals == {NoScore, 0, 60, 90}

\* K optional exams whose names sort before those of M mandatory exams
GradeCatalog(M, K) ==
  [e \in 1..(K + M) |-> ExamType(e > K, FALSE, NoDeadline)]

\* the Score rows of student u for the values of val that are recorded
ScoreRows(u, val) ==
  LET Test(s) == s.score # NoScore
  IN  SelectSeq([e \in DOMAIN val |-> Score(u, e, val[e])], Test)

\* the log rows of student u for exam e with the statuses sts, in time order
History(u, e, sts) ==
  [i \in DOMAIN sts |-> SubmissionLog(u, e, i, sts[i], i, NoText)]

Histories ==
  UNION {[1..n -> {PENDING, APPROVED, REJECTED}] : n \in 0..MaxRows}

\* either a catalog of M mandatory and K optional exams with the scores of
\* student 1 (the first `missing` mandatory exams without one), or an
\* optional exam 1 with any switch, deadline, score and attempts next to an
\* open mandatory exam 2; in both cases student 2 may have rows as well
InitGrades ==
  /\ TURNSTILE_SECRET_KEY = FALSE
  /\ client = FALSE
  /\ req = [r \in Reqs |-> Idle]
  /\ report = NoReport
  /\ \/ \E M \in MandatoryCounts, K \in 0..MaxOptional, v \in MandatoryVals,
          missing \in {0, 1}, foreign \in BOOLEAN :
          \E opt \in [1..K -> OptionalVals] :
            /\ exams = GradeCatalog(M, K)
            /\ scores =
                 ScoreRows(1, [e \in 1..(K + M) |->
                                 IF e <= K THEN opt[e]
                                 ELSE IF e <= K + missing THEN NoScore
                                 ELSE v])
                   \o (IF foreign THEN <<Score(2, 1, 90)>> ELSE << >>)
            /\ logs = << >>
            /\ now = 0
     \/ \E is_open \in BOOLEAN, deadline \in Deadlines,
          v \in {NoScore, 0, 60}, sts \in Histories, foreign \in BOOLEAN :
          /\ exams = (1 :> ExamType(FALSE, is_open, deadline))
                       @@ (2 :> ExamType(TRUE, TRUE, NoDeadline))
          /\ scores = ScoreRows(1, <<v>>)
          /\ logs = History(1, 1, sts)
                      \o (IF foreign
                          THEN History(2, 1, <<REJECTED, APPROVED>>)
                          ELSE << >>)
          /\ now \in 0..MaxTime

\* report = calculate_student_grades(user_id, session), with or without the
\* submission status
GetReport(u, include_submission_status) ==
  /\ report' = calculate_student_grades(u, exams, scores, logs, now,
                                        include_submission_status)
  /\ UNCHANGED <<exams, scores, logs, now, TURNSTILE_SECRET_KEY, client, req>>

NextGrades ==
  \E u \in Users \cup {NoUser}, include_submission_status \in BOOLEAN :
    GetReport(u, include_submission_status)

SpecGrades == InitGrades /\ [][NextGrades]_vars

\* the same reports with the clock running between them
NextGradesClock == NextGrades \/ Tick

SpecGradesClock == InitGrades /\ [][NextGradesClock]_vars

\* ---- the grade report while an administrator adds scores ----

\* catalogs with two slots, one slot and no slot left for optional exams; the
\* mandatory exams all have the score 50
EditMandatoryCounts == {18, 19, 21}

InitEdit ==
  /\ TURNSTILE_SECRET_KEY = FALSE
  /\ client = FALSE
  /\ req = [r \in Reqs |-> Idle]
  /\ report = NoReport
  /\ logs = << >>
  /\ now = 0
  /\ \E M \in EditMandatoryCounts, K \in 0..MaxOptional :
       \E opt \in [1..K -> OptionalVals] :
         /\ exams = GradeCatalog(M, K)
         /\ scores = ScoreRows(1, [e \in 1..(K + M) |->
                                     IF e <= K THEN opt[e] ELSE 50])

\* the score matrix form with one filled cell, for an exam of student u that
\* has no score yet
AddScore(u, e, v) ==
  /\ \A i \in 1..Len(scores) :
       ~(scores[i].user_id = u /\ scores[i].exam_type_id = e)
  /\ bulk_update_scores(<<u, e>> :> v)

NextGradesEdit ==
  \/ NextGrades
  \/ \E u \in Users, e \in 1..MaxOptional, v \in OptionalVals \ {NoScore} :
       AddScore(u, e, v)

SpecGradesEdit == InitEdit /\ [][NextGradesEdit]_vars

\* ---- the grade report while an administrator deletes exams ----

\* the exam and its scores deleted, its submission logs left behind
delete_exam_keeps_logs(e) ==
  /\ e \in DOMAIN exams
  /\ LET Keep(row) == row.exam_type_id # e
     IN  scores' = SelectSeq(scores, Keep)
  /\ exams' = [x \in DOMAIN exams \ {e} |-> exams[x]]
  /\ UNCHANGED <<logs, now, TURNSTILE_SECRET_KEY, client, req, report>>

\* delete_exam: the Score rows and the SubmissionLog rows of the exam are
\* deleted, then the exam itself, in one commit (for an unknown exam nothing
\* is committed)
delete_exam(e) ==
  /\ e \in DOMAIN exams
  /\ LET Keep(row) == row.exam_type_id # e
     IN  /\ scores' = SelectSeq(scores, Keep)
         /\ logs' = SelectSeq(logs, Keep)
  /\ exams' = [x \in DOMAIN exams \ {e} |-> exams[x]]
  /\ UNCHANGED <<now, TURNSTILE_SECRET_KEY, client, req, report>>

\* the exams the administrator deletes
DeleteExams == {1, 2}

\* the catalogs of InitEdit, or two open exams with attempts of two students
InitDelete ==
  \/ InitEdit
  \/ /\ TURNSTILE_SECRET_KEY = FALSE
     /\ client = FALSE
     /\ req = [r \in Reqs |-> Idle]
     /\ report = NoReport
     /\ now = 0
     /\ exams = (1 :> ExamType(FALSE, TRUE, NoDeadline))
                  @@ (2 :> ExamType(TRUE, TRUE, NoDeadline))
     /\ \E v \in {NoScore, 60}, sts \in Histories :
          /\ scores = ScoreRows(1, <<v, 90>>)
          /\ logs = History(1, 1, sts) \o History(2, 1, <<APPROVED>>)
                      \o History(1, 2, <<REJECTED>>)

NextGradesDelete ==
  \/ NextGrades
  \/ \E e \in DeleteExams : delete_exam(e)

SpecGradesDelete == InitDelete /\ [][NextGradesDelete]_vars

\* ---- the student's report while a submit request runs ----

\* a later read of the session sees what is committed at that moment
ConsistentRead_read_committed(snapshot, current) == current

\* the reads of one session run in one transaction of the MySQL engine
\* (database.py 5-9, 70-72): under its default isolation level, REPEATABLE
\* READ, every read returns the rows as committed when the transaction made
\* its first read
ConsistentRead(snapshot, current) == snapshot

\* calculate_student_grades, lines 203-217: the first reads of the session
\* (user, catalog, scores of the student); logs is what the transaction's
\* snapshot holds for the reads to come
ReportBegin(u) ==
  /\ report.kind # "reading"
  /\ report' = [kind |-> "reading", user_id |-> u, exams |-> exams,
                scores |-> scores, logs |-> logs]
  /\ UNCHANGED <<exams, scores, logs, now, TURNSTILE_SECRET_KEY, client, req>>

\* the report also records a score of 0 for an exam without one
ReportEnd_zero_fill ==
  /\ report.kind = "reading"
  /\ report' = calculate_student_grades(report.user_id, report.exams,
                 report.scores, ConsistentRead(report.logs, logs), now, TRUE)
  /\ scores' = IF \E e \in DOMAIN exams :
                    PairScores(scores, report.user_id, e) = << >>
               THEN Append(scores, Score(report.user_id,
                      CHOOSE e \in DOMAIN exams :
                        PairScores(scores, report.user_id, e) = << >>, 0))
               ELSE scores
  /\ UNCHANGED <<exams, logs, now, TURNSTILE_SECRET_KEY, client, req>>

\* lines 224-307: the loop over the catalog with the status query of each
\* open exam without a score, then the selection and the average
ReportEnd ==
  /\ report.kind = "reading"
  /\ report' = calculate_student_grades(report.user_id, report.exams,
                 report.scores, ConsistentRead(report.logs, logs), now, TRUE)
  /\ UNCHANGED <<exams, scores, logs, now, TURNSTILE_SECRET_KEY, client, req>>

\* the classifier's judgments
Verdicts == {Text(FALSE, "object", TRUE, c) : c \in Confidences}

\* one student submits (challenge passed, verifier and refresh working)
\* while the catalog is switched and the student's report is read
NextReport ==
  \/ Catalog
  \/ \E u \in Users, e \in ExamIds, score_claim \in ScoreVals :
       SubmitStart(1, u, e, score_claim, "good")
  \/ SubmitCheck(1, TRUE)
  \/ \E response \in Verdicts : SubmitCallClassifier(1, response)
  \/ \E db_ok \in BOOLEAN : SubmitProcess(1, db_ok, TRUE)
  \/ \E u \in Users : ReportBegin(u)
  \/ ReportEnd

SpecReport == Init /\ [][NextReport]_vars

\* ---- the submit request and a classifier that may not answer ----

\* the classifier call returns a judgment, raises or never returns
Outcomes == Verdicts \cup {Raises, Hangs}

SubmitLive ==
  \/ \E u \in Users, e \in ExamIds, score_claim \in ScoreVals :
       SubmitStart(1, u, e, score_claim, "good")
  \/ SubmitCheck(1, TRUE)
  \/ \E response \in Outcomes : SubmitCallClassifier(1, response)
  \/ \E db_ok \in BOOLEAN : SubmitProcess(1, db_ok, TRUE)

NextLive == Catalog \/ Tick \/ SubmitLive

\* the server runs every handler step that can run: a request that is
\* started is checked, sent to the classifier and, once the call is over,
\* processed
SpecLive ==
  /\ Init
  /\ [][NextLive]_vars
  /\ WF_vars(SubmitCheck(1, TRUE))
  /\ WF_vars(\E response \in Outcomes : SubmitCallClassifier(1, response))
  /\ WF_vars(\E db_ok \in BOOLEAN : SubmitProcess(1, db_ok, TRUE))

\* ---- properties ----

\* request r takes its step out of the stretch `from`
Leaves(r, from) == req[r].pc = from /\ req'[r].pc # from

\* request r ends in this step, coming from the stretch `from`
Ends(r, from) == req[r].pc = from /\ req'[r].pc = "done"

LastOf(rows) == rows[Len(rows)]

HasApproved(rows) == \E i \in 1..Len(rows) : rows[i].status = APPROVED

\* the classifier's answer is a JSON object once the code fences are cut
Parseable(text) == text.kind = "object"

\* C1: in sequential runs a pair never has more than 3 log rows, and an
\* APPROVED row is the last row of its pair, at position 3 or earlier.
C1_AttemptsBounded ==
  \A u \in Users, e \in ExamIds :
    LET rows == PairLogs(logs, u, e)
    IN  /\ Len(rows) <= 3
        /\ \A i \in 1..Len(rows) :
             rows[i].status = APPROVED => (i = Len(rows) /\ i <= 3)

\* a pair approved at its third attempt
C1_Witness ==
  \E u \in Users, e \in ExamIds :
    LET rows == PairLogs(logs, u, e)
    IN  Len(rows) = 3 /\ rows[3].status = APPROVED

\* C2: with interleaved requests a pair never holds more than 3 log rows
\* and never two rows with the same attempt_count.
C2_AtomicCount ==
  \A u \in Users, e \in ExamIds :
    LET rows == PairLogs(logs, u, e)
    IN  /\ Len(rows) <= 3
        /\ \A i, j \in 1..Len(rows) :
             i # j => rows[i].attempt_count # rows[j].attempt_count

\* C3: every (user_id, exam_type_id) pair has at most one Score row.
C3_OneScorePerPair ==
  \A u \in Users, e \in ExamIds : Len(PairScores(scores, u, e)) <= 1

\* the response the checks give when they run in the order open, attempts,
\* approval, challenge
SpecOrder(open, cs, challenge) ==
  IF ~open THEN R_CLOSED
  ELSE IF cs.count >= 3 THEN R_MAX
  ELSE IF cs.status = APPROVED THEN R_ALREADY
  ELSE IF ~challenge THEN R_CAPTCHA
  ELSE R_NONE

\* the response the checks give in the order challenge, attempts, approval,
\* open
CodeOrder(open, cs, challenge) ==
  IF ~challenge THEN R_CAPTCHA
  ELSE IF cs.count >= 3 THEN R_MAX
  ELSE IF cs.status = APPROVED THEN R_ALREADY
  ELSE IF ~open THEN R_CLOSED
  ELSE R_NONE

\* the checks of request r decide by Order, for an exam of the catalog and
\* a verifier that answers
DecidedBy(r, Order(_, _, _)) ==
  (/\ Leaves(r, "turnstile")
   /\ req'[r].result # R_ERR_NET
   /\ req[r].exam_id \in DOMAIN exams)
  => \E cs \in get_student_submission_status(logs, req[r].user, req[r].exam_id) :
       req'[r].result =
         Order(is_exam_effectively_open(exams[req[r].exam_id], now), cs,
               ~TURNSTILE_SECRET_KEY \/ req[r].cf_turnstile_response = "good")

\* C4 as claimed: the first failing check in the order (a) open, (b)
\* attempts, (c) approval, (d) challenge decides the response.
C4_SpecOrder == [][\A r \in Reqs : DecidedBy(r, SpecOrder)]_vars

\* C4 amended: the first failing check in the order (d) challenge, (b)
\* attempts, (c) approval, (a) open decides the response.
C4_CodeOrder == [][\A r \in Reqs : DecidedBy(r, CodeOrder)]_vars

\* a request answered "Max attempts reached" for a closed exam
C4_Witness ==
  \E r \in Reqs :
    /\ req[r].result = R_MAX
    /\ req[r].exam_id \in DOMAIN exams
    /\ ~exams[req[r].exam_id].is_open_for_submission

\* C5: a request with a parseable judgment whose commit succeeds writes a log
\* row that is APPROVED exactly when confidence > 75 (REJECTED otherwise),
\* and writes a Score with the claimed value exactly when it is APPROVED.
C5_Threshold ==
  [][\A r \in Reqs :
      (/\ Ends(r, "ai")
       /\ Parseable(req[r].response)
       /\ req'[r].result # R_ERR_DB)
      => /\ Len(logs') = Len(logs) + 1
         /\ LET row == LastOf(logs')
                c == IF req[r].response.has_confidence
                     THEN req[r].response.confidence ELSE 0
            IN  /\ row.status = (IF c > 75 THEN APPROVED ELSE REJECTED)
                /\ row.status = APPROVED =>
                     scores' = Append(scores, Score(req[r].user, req[r].exam_id,
                                                    req[r].score_claim))
                /\ row.status # APPROVED => scores' = scores]_vars

\* confidence 75 was rejected and confidence 76 approved, with its Score
C5_Witness ==
  \E i, j \in 1..Len(logs) :
    /\ logs[i].ai_response_json.confidence = 75 /\ logs[i].status = REJECTED
    /\ logs[j].ai_response_json.confidence = 76 /\ logs[j].status = APPROVED
    /\ Len(scores) = 1

\* C6: in sequential runs a request with a parseable judgment whose commit
\* succeeds appends exactly one log row, numbered one more than the rows the
\* pair had and holding the classifier's judgment; the k-th row of a pair
\* has attempt_count = k.
C6_OneRowPerJudgment ==
  [][\A r \in Reqs :
      (/\ Ends(r, "ai")
       /\ Parseable(req[r].response)
       /\ req'[r].result # R_ERR_DB)
      => LET before == PairLogs(logs, req[r].user, req[r].exam_id)
             after == PairLogs(logs', req[r].user, req[r].exam_id)
             row == LastOf(logs')
         IN  /\ req'[r].result \in {R_APPROVED, R_REJECTED}
             /\ Len(logs') = Len(logs) + 1
             /\ \A i \in 1..Len(logs) : logs'[i] = logs[i]
             /\ Len(after) = Len(before) + 1
             /\ row.user_id = req[r].user /\ row.exam_type_id = req[r].exam_id
             /\ row.attempt_count = Len(before) + 1
             /\ row.ai_response_json.kind = "object"
             /\ row.ai_response_json.has_confidence
                  = req[r].response.has_confidence
             /\ row.ai_response_json.confidence = req[r].response.confidence
             /\ \A k \in 1..Len(after) : after[k].attempt_count = k]_vars

\* three rows numbered 1, 2, 3, the last one from an answer in code fences
C6_Witness ==
  \E r \in Reqs :
    /\ req[r].pc = "done" /\ req[r].response.fenced
    /\ Len(PairLogs(logs, req[r].user, req[r].exam_id)) = 3
    /\ LastOf(logs).attempt_count = 3

\* the answers the classifier path cannot use
Unparseable(text) == text.kind \in {"raise", "invalid", "array"}

VerificationUnavailable == {R_NOAI, R_BADJSON, R_ERR_AI, R_ERR_ATTR}

\* C7: a request that finds no classifier client, whose classifier call
\* raises, or whose answer is no JSON object ends with a verification-
\* unavailable error (status 500) and writes no log row and no Score row.
C7_NoWriteWhenUnavailable ==
  [][\A r \in Reqs :
      (\/ (Leaves(r, "image") /\ ~client)
       \/ (Leaves(r, "ai") /\ Unparseable(req[r].response)))
      => /\ req'[r].pc = "done"
         /\ req'[r].result \in VerificationUnavailable
         /\ logs' = logs
         /\ scores' = scores]_vars

\* a request ended on an answer that is not JSON, the pair's two attempts
\* still being two
C7_Witness ==
  \E r \in Reqs :
    /\ req[r].result = R_BADJSON
    /\ Len(PairLogs(logs, req[r].user, req[r].exam_id)) = 2

\* C8: the step that ends a request adds an APPROVED log row exactly when it
\* adds a Score row (the one claimed), also when the commit or the refresh
\* after it fails.
C8_LogAndScoreTogether ==
  [][\A r \in Reqs :
      Ends(r, "ai")
      => LET approved_added ==
               /\ Len(logs') = Len(logs) + 1
               /\ LastOf(logs').status = APPROVED
             score_added == scores' # scores
         IN  /\ approved_added <=> score_added
             /\ score_added =>
                  scores' = Append(scores, Score(req[r].user, req[r].exam_id,
                                                 req[r].score_claim))]_vars

\* an approval whose commit failed: neither row is there
C8_Witness ==
  \E r \in Reqs :
    /\ req[r].result = R_ERR_DB
    /\ req[r].response.confidence > 75
    /\ scores = << >> /\ logs = << >>

\* C9: a request whose challenge fails is answered "CAPTCHA Verification
\* Failed", never calls the classifier and writes no row.
C9_ChallengeFailed ==
  [][\A r \in Reqs :
      (/\ Leaves(r, "turnstile")
       /\ req'[r].result # R_ERR_NET
       /\ TURNSTILE_SECRET_KEY
       /\ req[r].cf_turnstile_response = "bad")
      => /\ req'[r].pc = "done"
         /\ req'[r].result = R_CAPTCHA
         /\ ~req'[r].contacted
         /\ logs' = logs
         /\ scores' = scores]_vars

\* a failed challenge on a pair that has attempts left
C9_Witness ==
  \E r \in Reqs :
    /\ req[r].result = R_CAPTCHA
    /\ Len(PairLogs(logs, req[r].user, req[r].exam_id)) = 1

\* C10: on an open exam and with a passing challenge, a request for a pair
\* that has an APPROVED row and fewer than 3 rows is answered "Already
\* approved", never calls the classifier and writes no row.
C10_AlreadyApproved ==
  [][\A r \in Reqs :
      (/\ Leaves(r, "turnstile")
       /\ req'[r].result # R_ERR_NET
       /\ ~TURNSTILE_SECRET_KEY \/ req[r].cf_turnstile_response = "good"
       /\ req[r].exam_id \in DOMAIN exams
       /\ exams[req[r].exam_id].is_open_for_submission
       /\ \/ exams[req[r].exam_id].submission_deadline = NoDeadline
          \/ now <= exams[req[r].exam_id].submission_deadline
       /\ HasApproved(PairLogs(logs, req[r].user, req[r].exam_id))
       /\ Len(PairLogs(logs, req[r].user, req[r].exam_id)) < 3)
      => /\ req'[r].pc = "done"
         /\ req'[r].result = R_ALREADY
         /\ ~req'[r].contacted
         /\ logs' = logs
         /\ scores' = scores]_vars

\* "Already approved" for a pair approved at its first attempt
C10_Witness ==
  \E r \in Reqs :
    /\ req[r].result = R_ALREADY
    /\ req[r].exam_id \in DOMAIN exams
    /\ exams[req[r].exam_id].is_open_for_submission
    /\ Len(PairLogs(logs, req[r].user, req[r].exam_id)) = 1

\* the derived state EXHAUSTED: 3 rows, none of them APPROVED
Exhausted(rows) == Len(rows) = 3 /\ ~HasApproved(rows)

\* the challenge of request r passes (or is not configured)
ChallengePasses(r) ==
  ~TURNSTILE_SECRET_KEY \/ req[r].cf_turnstile_response = "good"

C12_StatusQuery ==
  report.kind = "status" =>
    LET mine == {i \in 1..Len(logs) :
                   /\ logs[i].user_id = report.user_id
                   /\ logs[i].exam_type_id = report.exam_id}
        latest == {i \in mine : \A j \in mine :
                     logs[j].last_attempt_time <= logs[i].last_attempt_time}
    IN  /\ report.attempt_count = Cardinality(mine)
        /\ IF \E i \in mine : logs[i].status = APPROVED
           THEN report.current_status = APPROVED
           ELSE IF mine = {} THEN report.current_status = PENDING
           ELSE \E i \in latest : report.current_status = logs[i].status

\* REJECTED returned for a pair whose older row is PENDING and whose later
\* row is REJECTED, next to an APPROVED row of another student
C12_Witness ==
  /\ report.kind = "status"
  /\ report.current_status = REJECTED
  /\ report.attempt_count = 2
  /\ \E i, j, k \in 1..Len(logs) :
       /\ logs[i].user_id = report.user_id /\ logs[i].status = REJECTED
       /\ logs[j].user_id = report.user_id /\ logs[j].status = PENDING
       /\ logs[j].last_attempt_time < logs[i].last_attempt_time
       /\ logs[k].user_id # report.user_id /\ logs[k].status = APPROVED

\* C13: once a pair has an APPROVED log row, the status query returns
\* APPROVED for it in every later state that interleaved submit requests
\* reach, also when a request appends a REJECTED row after the APPROVED one.
C13_ApprovedPermanent ==
  [][\A u \in Users, e \in ExamIds :
      HasApproved(PairLogs(logs, u, e))
      => /\ HasApproved(PairLogs(logs', u, e))
         /\ \A cs \in get_student_submission_status(logs', u, e) :
              cs.status = APPROVED]_vars

\* a pair whose APPROVED row is followed by a REJECTED row of a request
\* that was under way, the query returning APPROVED
C13_Witness ==
  \E u \in Users, e \in ExamIds :
    LET rows == PairLogs(logs, u, e)
    IN  /\ \E i, j \in 1..Len(rows) :
             i < j /\ rows[i].status = APPROVED /\ rows[j].status = REJECTED
        /\ \A cs \in get_student_submission_status(logs, u, e) :
             cs.status = APPROVED

\* C14: is_exam_effectively_open(exam) is true exactly when the manual flag
\* is set and the deadline is absent or strictly later than the current time
\* (now < deadline); at now = deadline the exam is not effectively open.
C14_StrictDeadline ==
  report.kind = "open" =>
    LET exam == exams[report.exam_id]
    IN  report.is_effectively_open
          <=> /\ exam.is_open_for_submission
              /\ \/ exam.submission_deadline = NoDeadline
                 \/ now < exam.submission_deadline

\* the exam does not accept submissions: the flag is off, or the flag is on
\* and the deadline lies in the past
NotEffectivelyOpen(exam, t) ==
  \/ ~exam.is_open_for_submission
  \/ /\ exam.is_open_for_submission
     /\ exam.submission_deadline # NoDeadline
     /\ exam.submission_deadline < t

\* C15 as claimed: every request for an exam of the catalog that is not
\* effectively open is answered "Submission is closed", never calls the
\* classifier and writes no row.
C15_AlwaysClosed ==
  [][\A r \in Reqs :
      (/\ Leaves(r, "turnstile")
       /\ req'[r].result # R_ERR_NET
       /\ req[r].exam_id \in DOMAIN exams
       /\ NotEffectivelyOpen(exams[req[r].exam_id], now))
      => /\ req'[r].pc = "done"
         /\ req'[r].result = R_CLOSED
         /\ ~req'[r].contacted
         /\ logs' = logs
         /\ scores' = scores]_vars

\* C15 amended: a request for an exam of the catalog that is not effectively
\* open ends without calling the classifier and without writing a row; it is
\* answered "Submission is closed" when its challenge passes and the pair
\* has fewer than 3 rows, none APPROVED, and else by the check that fails
\* earlier (challenge, attempts, approval).
C15_ClosedExam ==
  [][\A r \in Reqs :
      (/\ Leaves(r, "turnstile")
       /\ req'[r].result # R_ERR_NET
       /\ req[r].exam_id \in DOMAIN exams
       /\ NotEffectivelyOpen(exams[req[r].exam_id], now))
      => LET rows == PairLogs(logs, req[r].user, req[r].exam_id)
         IN  /\ req'[r].pc = "done"
             /\ req'[r].result \in {R_CAPTCHA, R_MAX, R_ALREADY, R_CLOSED}
             /\ (ChallengePasses(r) /\ Len(rows) < 3 /\ ~HasApproved(rows))
                  <=> req'[r].result = R_CLOSED
             /\ ~req'[r].contacted
             /\ logs' = logs
             /\ scores' = scores]_vars

\* "Submission is closed" for an exam whose flag is on and whose deadline
\* has passed
C15_Witness ==
  \E r \in Reqs :
    /\ req[r].result = R_CLOSED
    /\ req[r].exam_id \in DOMAIN exams
    /\ exams[req[r].exam_id].is_open_for_submission
    /\ exams[req[r].exam_id].submission_deadline # NoDeadline
    /\ exams[req[r].exam_id].submission_deadline < now

\* ---- properties of the grade report ----

Abs(x) == IF x < 0 THEN -x ELSE x

Mandatory == {e \in DOMAIN exams : exams[e].is_mandatory}

Optional == DOMAIN exams \ Mandatory

\* student u has a Score row for exam e
Recorded(u, e) ==
  \E i \in 1..Len(scores) :
    scores[i].user_id = u /\ scores[i].exam_type_id = e

\* the recorded scores of student u, a missing one counted as 0
ZeroFilled(u) ==
  [e \in DOMAIN exams |->
     IF Recorded(u, e)
     THEN scores[CHOOSE i \in 1..Len(scores) :
                   scores[i].user_id = u /\ scores[i].exam_type_id = e].score
     ELSE 0]

RECURSIVE SetSum(_, _)
SetSum(S, f) ==
  IF S = {} THEN 0
  ELSE LET x == CHOOSE y \in S : TRUE IN f[x] + SetSum(S \ {x}, f)

\* the sum of the k highest values of f over S, of all of them when S has
\* fewer than k elements
RECURSIVE TopSum(_, _, _)
TopSum(S, f, k) ==
  IF S = {} \/ k <= 0 THEN 0
  ELSE LET x == CHOOSE y \in S : \A z \in S : f[z] <= f[y]
       IN  f[x] + TopSum(S \ {x}, f, k - 1)

Details == {report.details[i] : i \in 1..Len(report.details)}

C17_TopTwenty ==
  (report.kind = "grades" /\ Cardinality(Mandatory) <= 20) =>
    LET val == ZeroFilled(report.user_id)
        recorded == {e \in Optional : Recorded(report.user_id, e)}
        total == SetSum(Mandatory, val)
                   + TopSum(recorded, val, 20 - Cardinality(Mandatory))
    IN  report.average * 20 = 100 * total

\* 19 mandatory exams, one of them without a score, and one slot taken by
\* an optional exam that sorts after a lower-scored one
C17_Witness ==
  /\ report.kind = "grades"
  /\ Cardinality(Mandatory) = 19
  /\ \E d \in Details : d.is_mandatory /\ d.score = NoScore
  /\ \E d, d2 \in Details :
       /\ ~d.is_mandatory /\ d.included
       /\ ~d2.is_mandatory /\ ~d2.included /\ d2.score # NoScore
       /\ d2.exam_id < d.exam_id

\* C18: with M > 20 mandatory exams no optional exam is selected, M scores
\* are counted and the average is (the mandatory scores, missing ones as
\* 0) / M to 2 decimals; 25 mandatory exams of score 50 give 50.00.
C18_ManyMandatory ==
  (report.kind = "grades" /\ Cardinality(Mandatory) > 20) =>
    LET M == Cardinality(Mandatory)
        val == ZeroFilled(report.user_id)
        total == SetSum(Mandatory, val)
    IN  /\ \A d \in Details : ~d.is_mandatory => ~d.included
        /\ report.exam_count = M
        /\ 2 * Abs(report.average * M - 100 * total) <= M
        /\ (M = 25 /\ \A e \in Mandatory :
                        Recorded(report.user_id, e) /\ val[e] = 50)
             => report.average = 5000

\* 25 mandatory exams of score 50 next to an optional exam of score 90
C18_Witness ==
  /\ report.kind = "grades"
  /\ Cardinality(Mandatory) = 25
  /\ \A d \in Details : d.is_mandatory => d.score = 50
  /\ \E d \in Details : ~d.is_mandatory /\ d.score = 90
  /\ report.average = 5000

\* C19: every mandatory exam is marked included, with or without a score;
\* one without a score is shown with no score (not 0) and adds 0 to the
\* total: the average is the sum of the recorded scores of the included
\* exams over max(20, number of included exams).
C19_MandatoryIncluded ==
  report.kind = "grades" =>
    LET u == report.user_id
        inc == {d.exam_id : d \in {x \in Details : x.included}}
        total == SetSum({e \in inc : Recorded(u, e)}, ZeroFilled(u))
        n == Cardinality(inc)
        divisor == IF n > 20 THEN n ELSE 20
    IN  /\ \A d \in Details :
             d.is_mandatory
             => /\ d.included
                /\ ~Recorded(u, d.exam_id) => (d.score = NoScore /\ d.score # 0)
        /\ Mandatory \subseteq inc
        /\ 2 * Abs(report.average * divisor - 100 * total) <= divisor

\* a mandatory exam without a score is included and shown without a score
\* in a report whose average is not 0
C19_Witness ==
  /\ report.kind = "grades"
  /\ report.average > 0
  /\ \E d \in Details : d.is_mandatory /\ d.included /\ d.score = NoScore

\* C20: an optional exam without a score is never marked included and
\* changes neither the average nor the number of counted exams (the report
\* is that of the catalog without it); an optional exam with the score 0 is
\* marked included when fewer than 20 - M scored optional exams rank before
\* it (a higher score, or the score 0 and an earlier place).
C20_OptionalZero ==
  report.kind = "grades" =>
    LET u == report.user_id
        unscored == {e \in Optional : ~Recorded(u, e)}
        pruned == [e \in DOMAIN exams \ unscored |-> exams[e]]
        other == calculate_student_grades(u, pruned, scores, logs, now,
                                          report.include_submission_status)
        val == ZeroFilled(u)
    IN  /\ \A d \in Details : d.exam_id \in unscored => ~d.included
        /\ report.exam_count = Cardinality({d \in Details : d.included})
        /\ other.average = report.average
        /\ other.exam_count = report.exam_count
        /\ \A d \in Details :
             (/\ ~d.is_mandatory
              /\ Recorded(u, d.exam_id)
              /\ val[d.exam_id] = 0
              /\ Cardinality({e \in Optional \ {d.exam_id} :
                    /\ Recorded(u, e)
                    /\ val[e] > 0 \/ (val[e] = 0 /\ e < d.exam_id)})
                   < 20 - Cardinality(Mandatory))
             => d.included /\ d.score = 0

\* an optional exam of score 0 is included next to one without a score that
\* is not, all slots but two being mandatory
C20_Witness ==
  /\ report.kind = "grades"
  /\ Cardinality(Mandatory) = 19
  /\ \E d, d2 \in Details :
       /\ ~d.is_mandatory /\ d.score = 0 /\ d.included
       /\ ~d2.is_mandatory /\ d2.score = NoScore /\ ~d2.included

\* C21: an optional exam with a score is marked included exactly when fewer
\* than 20 - M scored optional exams come before it, by a higher score or,
\* at an equal score, by an earlier place in the catalog (name ascending):
\* at the cut-off the exams of equal score that come first are taken.
C21_StableTieBreak ==
  report.kind = "grades" =>
    LET u == report.user_id
        val == ZeroFilled(u)
        recorded == {e \in Optional : Recorded(u, e)}
        Ahead(e) == {f \in recorded :
                       val[f] > val[e] \/ (val[f] = val[e] /\ f < e)}
    IN  \A d \in Details :
          ~d.is_mandatory
          => (d.included
                <=> /\ d.exam_id \in recorded
                    /\ Cardinality(Ahead(d.exam_id))
                         < 20 - Cardinality(Mandatory))

\* two optional exams of equal score compete for the one slot left: the
\* one named first is included, the other is not
C21_Witness ==
  /\ report.kind = "grades"
  /\ Cardinality(Mandatory) = 19
  /\ \E d, d2 \in Details :
       /\ ~d.is_mandatory /\ ~d2.is_mandatory
       /\ d.score = d2.score /\ d.score # NoScore
       /\ d.exam_id < d2.exam_id
       /\ d.included /\ ~d2.included

\* a report of the same student and the same kind follows a report
SameCall ==
  /\ report.kind = "grades" /\ report'.kind = "grades"
  /\ report'.user_id = report.user_id
  /\ report'.include_submission_status = report.include_submission_status
  /\ exams' = exams /\ scores' = scores /\ logs' = logs

\* C22 as claimed: a second report for the same student over an unchanged
\* catalog, unchanged scores and unchanged logs is identical to the first.
C22_Idempotent == [][SameCall => report' = report]_vars

\* C22 amended: the second report has the same average, the same counts and
\* the same rows but for can_submit, and a can_submit flag differs only by
\* turning from true to false for an exam whose deadline has passed.
C22_IdempotentUpToDeadline ==
  [][SameCall =>
      /\ report'.average = report.average
      /\ report'.exam_count = report.exam_count
      /\ report'.valid_exam_count = report.valid_exam_count
      /\ Len(report'.details) = Len(report.details)
      /\ \A i \in 1..Len(report.details) :
           LET d == report.details[i]
               d2 == report'.details[i]
           IN  /\ [d2 EXCEPT !.can_submit = d.can_submit] = d
               /\ d2.can_submit # d.can_submit
                    => /\ d.can_submit /\ ~d2.can_submit
                       /\ d.submission_deadline # NoDeadline
                       /\ d.submission_deadline < now']_vars

\* a report made after the deadline of an exam that is switched open, has
\* no score and has attempts left
C22_Witness ==
  /\ report.kind = "grades"
  /\ report.include_submission_status
  /\ \E d \in Details :
       /\ ~d.can_submit
       /\ d.score = NoScore
       /\ exams[d.exam_id].is_open_for_submission
       /\ d.submission_deadline # NoDeadline
       /\ d.submission_deadline < now
       /\ PairLogs(logs, report.user_id, d.exam_id) = << >>

\* the optional exams a report marks included
SelectedOptional(rep) ==
  {rep.details[i].exam_id :
     i \in {j \in 1..Len(rep.details) :
              ~rep.details[j].is_mandatory /\ rep.details[j].included}}

\* the step gives student u a first score for the optional exam e, at least
\* the lowest score among the optional exams selected so far
AddsOptionalScore(u, e) ==
  /\ e \in Optional
  /\ ~Recorded(u, e)
  /\ scores' = Append(scores, scores'[Len(scores')])
  /\ scores'[Len(scores')].user_id = u
  /\ scores'[Len(scores')].exam_type_id = e
  /\ LET before == SelectedOptional(
                     calculate_student_grades(u, exams, scores, logs, now, TRUE))
     IN  /\ before # {}
         /\ \E x \in before : ZeroFilled(u)[x] <= scores'[Len(scores')].score

\* the new score takes the place of a selected optional exam of the lowest
\* score, or the selection stays as it is
ReplacesOrKeeps(u, e) ==
  LET before == SelectedOptional(
                  calculate_student_grades(u, exams, scores, logs, now, TRUE))
      after == SelectedOptional(
                 calculate_student_grades(u, exams', scores', logs', now', TRUE))
      val == ZeroFilled(u)
  IN  \/ after = before
      \/ \E x \in before :
           /\ \A y \in before : val[x] <= val[y]
           /\ after = (before \ {x}) \cup {e}

AverageNotLower(u) ==
  calculate_student_grades(u, exams', scores', logs', now', TRUE).average
    >= calculate_student_grades(u, exams, scores, logs, now, TRUE).average

NoDanglingRow ==
  /\ \A i \in 1..Len(scores) : scores[i].exam_type_id \in DOMAIN exams
  /\ \A i \in 1..Len(logs) : logs[i].exam_type_id \in DOMAIN exams

\* C24: the step that deletes exam e leaves no Score row and no
\* SubmissionLog row of e (and keeps the rows of the other exams), no row of
\* a deleted exam appears later, and a report made later has one detail row
\* per exam of the catalog as it is then, counts the mandatory exams of that
\* catalog and divides by max(20, their number).
C24_DeleteCascades ==
  [][/\ \A e \in DOMAIN exams :
          e \notin DOMAIN exams'
          => LET Keep(row) == row.exam_type_id # e
             IN  /\ scores' = SelectSeq(scores, Keep)
                 /\ logs' = SelectSeq(logs, Keep)
                 /\ DOMAIN exams' = DOMAIN exams \ {e}
     /\ NoDanglingRow'
     /\ (report' # report /\ report'.kind = "grades")
          => LET M == Cardinality(Mandatory)
                 val == ZeroFilled(report'.user_id)
                 recorded == {e \in Optional : Recorded(report'.user_id, e)}
                 total == SetSum(Mandatory, val) + TopSum(recorded, val, 20 - M)
                 divisor == IF M > 20 THEN M ELSE 20
                 rows == {report'.details[i] : i \in 1..Len(report'.details)}
             IN  /\ {d.exam_id : d \in rows} = DOMAIN exams
                 /\ Len(report'.details) = Cardinality(DOMAIN exams)
                 /\ {d.exam_id : d \in {x \in rows : x.is_mandatory}} = Mandatory
                 /\ 2 * Abs(report'.average * divisor - 100 * total) <= divisor]_vars

\* of 21 mandatory exams the first is deleted: the report counts the 20 that
\* are left and has no row for the deleted one
C24_Witness ==
  /\ report.kind = "grades"
  /\ 1 \notin DOMAIN exams
  /\ Cardinality(Mandatory) = 20
  /\ Optional = {}
  /\ report.exam_count = 20
  /\ \A d \in Details : d.exam_id # 1

\* the row of exam e in a report
DetailOf(rep, e) ==
  rep.details[CHOOSE i \in 1..Len(rep.details) : rep.details[i].exam_id = e]

\* C25: the approval of a request for a pair without a Score writes the
\* claimed score v as the pair's Score, and a report read after it shows v
\* for the exam, selects the exam with the value v (here the only exam:
\* average v / 20) and has can_submit = false for it.
C25_ApprovedScoreInReport ==
  [][/\ \A r \in Reqs :
          (/\ Ends(r, "ai")
           /\ req'[r].result = R_APPROVED
           /\ PairScores(scores, req[r].user, req[r].exam_id) = << >>)
          => PairScores(scores', req[r].user, req[r].exam_id)
               = <<Score(req[r].user, req[r].exam_id, req[r].score_claim)>>
     /\ \A e \in ExamIds :
          (/\ report.kind = "reading" /\ report'.kind = "grades"
           /\ e \in DOMAIN report.exams
           /\ HasApproved(PairLogs(report.logs, report.user_id, e))
           /\ Len(PairScores(report.scores, report.user_id, e)) = 1)
          => LET v == PairScores(report.scores, report.user_id, e)[1].score
                 d == DetailOf(report', e)
             IN  /\ d.score = v
                 /\ d.included
                 /\ report'.exam_count = 1
                 /\ report'.average * 20 = 100 * v
                 /\ ~d.can_submit]_vars

\* the report shows the approved claim of 90 for an exam that is still open
C25_Witness ==
  /\ report.kind = "grades"
  /\ \E d \in Details :
       /\ d.score = 90 /\ d.included /\ ~d.can_submit
       /\ report.average = 450
       /\ d.exam_id \in DOMAIN exams
       /\ exams[d.exam_id].is_open_for_submission
       /\ HasApproved(PairLogs(logs, report.user_id, d.exam_id))

C28_ReadOnly ==
  [][report' # report
      => /\ exams' = exams
         /\ scores' = scores
         /\ logs' = logs]_vars

\* a report read from tables that hold a Score and log rows
C28_Witness ==
  /\ report.kind = "grades"
  /\ Len(logs) >= 2
  /\ scores # << >>
  /\ \E d \in Details : d.score = scores[1].score

\* C26: every submit request that reached the classifier call completes
\* with a result, also when the classifier never answers.
C26_ClassifierCallCompletes ==
  (req[1].pc = "ai") ~> (req[1].pc = "done")

\* C29: under submit requests, bulk score import and bulk score edit a pair
\* with an APPROVED log row has a Score row, and the step that approves a
\* submission leaves the pair with a Score row of the claimed value, the one
\* read last among the pair's rows; the steps of a request change no other
\* Score row.
C29_ApprovedHasClaimedScore ==
  [][/\ \A u \in Users, e \in ExamIds :
          HasApproved(PairLogs(logs', u, e))
          => PairScores(scores', u, e) # << >>
     /\ \A r \in Reqs :
          /\ (/\ Ends(r, "ai")
              /\ Len(logs') = Len(logs) + 1
              /\ LastOf(logs').status = APPROVED)
             => LET rows == PairScores(scores', req[r].user, req[r].exam_id)
                IN  /\ rows # << >>
                    /\ LastOf(rows).score = req[r].score_claim
          /\ req'[r] # req[r]
             => SubSeq(scores', 1, Len(scores)) = scores]_vars

\* an approved pair that had a Score of another value before the approval:
\* the claimed 90 is the row read last
C29_Witness ==
  \E u \in Users, e \in ExamIds :
    LET rows == PairScores(scores, u, e)
    IN  /\ HasApproved(PairLogs(logs, u, e))
        /\ Len(rows) = 2
        /\ rows[1].score = 60
        /\ rows[2].score = 90

\* C30: a submit request writes a SubmissionLog or Score row only for an
\* exam that is effectively open at the moment of the write, also when the
\* exam was closed or its deadline passed after the request's open check.
C30_NoWriteWhenClosed ==
  [][\A r \in Reqs :
      (Ends(r, "ai") /\ (logs' # logs \/ scores' # scores))
      => /\ req[r].exam_id \in DOMAIN exams
         /\ is_exam_effectively_open(exams[req[r].exam_id], now)]_vars

====
